---- MODULE Spec2Model ----
(***************************************************************************)
(* ion-accordion (core/src/components/accordion/accordion.tsx): the        *)
(* expand/collapse state machine of the accordion items of one accordion   *)
(* group, the animation frames and completion waits it schedules, and the  *)
(* adjacency flags it derives from its siblings.                           *)
(***************************************************************************)
EXTENDS Integers, Sequences, FiniteSets, TLC

\* ------------------------------------------------------------------ bounds
\* most inputs of one behaviour that start work: ionChange broadcasts of the
\* group and removals of an accordion from the document
MaxEvents == 2

\* ------------------------------------------------------- AccordionState
Collapsed == 1
Collapsing == 2
Expanded == 4
Expanding == 8

AccordionState == {Collapsed, Collapsing, Expanded, Expanding}

\* ---------------------------------------------------------------- the DOM
\* three sibling elements in document order
Items == {1, 2, 3}

Undefined == "undefined"
Identifiers == {"panel-1", "panel-2", "panel-3"}
ACCORDION == "ION-ACCORDION"

\* the sibling lists the model starts from: tag name and `value` of each
\* sibling, whether an ion-accordion-group encloses them, and the group's
\* `multiple` (its value is an array) or not (one identifier or undefined)
Layouts ==
  { [tagName |-> <<ACCORDION, ACCORDION, ACCORDION>>,
     value   |-> <<"panel-1", "panel-2", "panel-3">>, group |-> TRUE, multiple |-> FALSE],
    [tagName |-> <<ACCORDION, ACCORDION, "DIV">>,
     value   |-> <<"panel-1", "panel-2", Undefined>>, group |-> TRUE, multiple |-> TRUE],
    [tagName |-> <<ACCORDION, ACCORDION, ACCORDION>>,
     value   |-> <<"panel-1", Undefined, "panel-3">>, group |-> TRUE, multiple |-> TRUE],
    [tagName |-> <<ACCORDION, "DIV", ACCORDION>>,
     value   |-> <<"panel-1", Undefined, "panel-3">>, group |-> TRUE, multiple |-> FALSE],
    [tagName |-> <<ACCORDION, ACCORDION, ACCORDION>>,
     value   |-> <<"panel-1", "panel-2", "panel-3">>, group |-> FALSE, multiple |-> FALSE] }

\* the identifiers the items of a sibling list carry
Present(d) == {d.value[i] : i \in Items} \ {Undefined}

\* values of the group's `value` over the identifiers of its items
Selections(d) ==
  IF d.multiple
  THEN { [isArray |-> TRUE, scalar |-> Undefined, items |-> s] : s \in SUBSET Present(d) }
  ELSE { [isArray |-> FALSE, scalar |-> v, items |-> {}] : v \in Present(d) \cup {Undefined} }

VARIABLES
  dom,         \* the sibling list (fixed by Init)
  groupValue,  \* accordionGroup.value
  acc,         \* acc[i]: the fields of the Accordion instance of sibling i
  request,     \* the requestAccordionToggle call the group is deciding, if any
  events       \* number of ionChange broadcasts and removals so far

vars == <<dom, groupValue, acc, request, events>>

\* ----------------------------------------------------- pure helper code
\* (Array.isArray(value)) ? value.includes(v) : value === v
Includes(sel, v) == IF sel.isArray THEN v \in sel.items ELSE sel.scalar = v

\* a cancelAnimationFrame that cancels nothing
cancelAnimationFrame_none(a) == a

\* cancelAnimationFrame(this.currentRaf): removes the scheduled frame whose
\* handle is the one stored in currentRaf; a handle whose frame has run
\* cancels nothing.  `current` marks the frame whose handle currentRaf holds.
cancelAnimationFrame(a) ==
  IF a.currentRaf = Undefined THEN a
  ELSE [a EXCEPT !.frames = SelectSeq(a.frames, LAMBDA f : ~f.current)]

\* a raf that runs the callback up to its await before it returns
raf_sync(a, cb) ==
  IF cb = "expand"
  THEN [a EXCEPT !.waits = Append(@, "expand"), !.maxHeight = TRUE,
                 !.currentRaf = "handle"]
  ELSE [a EXCEPT !.maxHeight = TRUE, !.waits = Append(@, "collapse"),
                 !.state = Collapsing, !.currentRaf = "handle"]

\* this.currentRaf = raf(cb): a new frame is scheduled behind the others and
\* currentRaf now holds its handle and no other
raf(a, cb) ==
  [a EXCEPT !.frames = Append([k \in DOMAIN a.frames |->
                                  [a.frames[k] EXCEPT !.current = FALSE]],
                              [cb |-> cb, current |-> TRUE]),
            !.currentRaf = "handle"]

\* expandAccordion without its initial-mount path
expandAccordion_animated(a, initialUpdate) ==
  IF a.state = Expanded THEN a
  ELSE IF ~a.contentEl THEN a
  ELSE raf(cancelAnimationFrame([a EXCEPT !.state = Expanding]), "expand")

expandAccordion(a, initialUpdate) ==
  IF initialUpdate THEN [a EXCEPT !.state = Expanded]
  ELSE IF a.state = Expanded THEN a
  ELSE IF ~a.contentEl THEN a
  ELSE raf(cancelAnimationFrame([a EXCEPT !.state = Expanding]), "expand")

\* collapseAccordion that does not test for the content element
collapseAccordion_unchecked(a, initialUpdate) ==
  IF initialUpdate THEN [a EXCEPT !.state = Collapsed]
  ELSE IF a.state = Collapsed THEN a
  ELSE raf(cancelAnimationFrame(a), "collapse")

collapseAccordion(a, initialUpdate) ==
  IF initialUpdate THEN [a EXCEPT !.state = Collapsed]
  ELSE IF a.state = Collapsed THEN a
  ELSE IF ~a.contentEl THEN a
  ELSE raf(cancelAnimationFrame(a), "collapse")

Min(S) == CHOOSE x \in S : \A y \in S : x <= y
Max(S) == CHOOSE x \in S : \A y \in S : x >= y

\* this.el.nextElementSibling among the elements `doc` of the document, 0 for null
nextElementSibling(doc, i) ==
  LET after == {j \in doc : j > i}
  IN IF after = {} THEN 0 ELSE Min(after)

previousElementSibling(doc, i) ==
  LET before == {j \in doc : j < i}
  IN IF before = {} THEN 0 ELSE Max(before)

\* a lookup that never finds the next accordion
getNextSibling_none(doc, i) == 0

\* 0 stands for `undefined` (no such sibling, or not an ion-accordion)
getNextSibling(doc, i) ==
  LET nextSibling == nextElementSibling(doc, i)
  IN IF nextSibling = 0 \/ dom.tagName[nextSibling] # ACCORDION THEN 0 ELSE nextSibling

\* a lookup that finds the nearest accordion before the item, whatever lies
\* between
getPreviousSibling_anyAccordion(doc, i) ==
  LET before == {j \in doc : j < i /\ dom.tagName[j] = ACCORDION}
  IN IF before = {} THEN 0 ELSE Max(before)

getPreviousSibling(doc, i) ==
  LET previousSibling == previousElementSibling(doc, i)
  IN IF previousSibling = 0 \/ dom.tagName[previousSibling] # ACCORDION THEN 0
     ELSE previousSibling

\* nextAccordion && nextAccordion.value
SiblingValue(j) == IF j = 0 THEN Undefined ELSE dom.value[j]

\* updateState with the two flags exchanged: isNext from the next sibling and
\* isPrevious from the previous one
updateState_swapped(a, doc, i, value, initialUpdate) ==
  IF dom.value[i] = Undefined \/ a.accordionGroupEl # "group" THEN a
  ELSE IF Includes(value, dom.value[i])
  THEN [expandAccordion(a, initialUpdate) EXCEPT !.isNext = FALSE, !.isPrevious = FALSE]
  ELSE LET c == collapseAccordion(a, initialUpdate)
           nextAccordionValue == SiblingValue(getNextSibling(doc, i))
           previousAccordionValue == SiblingValue(getPreviousSibling(doc, i))
       IN [c EXCEPT
             !.isNext = IF nextAccordionValue # Undefined
                        THEN Includes(value, nextAccordionValue) ELSE @,
             !.isPrevious = IF previousAccordionValue # Undefined
                            THEN Includes(value, previousAccordionValue) ELSE @]

\* updateState that does not return early for an item without an identifier
updateState_anyValue(a, doc, i, value, initialUpdate) ==
  IF a.accordionGroupEl # "group" THEN a
  ELSE IF Includes(value, dom.value[i])
  THEN [expandAccordion(a, initialUpdate) EXCEPT !.isNext = FALSE, !.isPrevious = FALSE]
  ELSE LET c == collapseAccordion(a, initialUpdate)
           nextAccordionValue == SiblingValue(getNextSibling(doc, i))
           previousAccordionValue == SiblingValue(getPreviousSibling(doc, i))
       IN [c EXCEPT
             !.isPrevious = IF nextAccordionValue # Undefined
                            THEN Includes(value, nextAccordionValue) ELSE @,
             !.isNext = IF previousAccordionValue # Undefined
                        THEN Includes(value, previousAccordionValue) ELSE @]

updateState(a, doc, i, value, initialUpdate) ==
  IF dom.value[i] = Undefined \/ a.accordionGroupEl # "group" THEN a
  ELSE IF Includes(value, dom.value[i])
  THEN [expandAccordion(a, initialUpdate) EXCEPT !.isNext = FALSE, !.isPrevious = FALSE]
  ELSE LET c == collapseAccordion(a, initialUpdate)
           nextAccordionValue == SiblingValue(getNextSibling(doc, i))
           previousAccordionValue == SiblingValue(getPreviousSibling(doc, i))
       IN [c EXCEPT
             !.isPrevious = IF nextAccordionValue # Undefined
                            THEN Includes(value, nextAccordionValue) ELSE @,
             !.isNext = IF previousAccordionValue # Undefined
                        THEN Includes(value, previousAccordionValue) ELSE @]

\* the elements in the document: accordions while connected, the others always
Document == {j \in Items : dom.tagName[j] # ACCORDION \/ acc[j].connected}

\* the group dispatches ionChange: every listener runs updateState(false)
\* on the same value, one after the other, in one task
Broadcast(value) ==
  [i \in Items |-> IF acc[i].listening
                   THEN updateState(acc[i], Document, i, value, FALSE)
                   ELSE acc[i]]

\* expand computed from the resting state only
ToggleExpand_collapsedOnly(a) == a.state = Collapsed

\* `expand` of toggleExpanded
ToggleExpand(a) == a.state = Collapsed \/ a.state = Collapsing

\* the selection after the group honours requestAccordionToggle(v, expand).
\* An undefined identifier is never looked up by an item (updateState tests
\* for it before every includes), so it is not kept in the array.
HonouredValue(value, v, expand) ==
  IF value.isArray
  THEN [value EXCEPT !.items = IF expand THEN @ \cup ({v} \ {Undefined}) ELSE @ \ {v}]
  ELSE [value EXCEPT !.scalar = IF expand THEN v ELSE Undefined]

\* ------------------------------------------------------------------ Init
NewAccordion ==
  [state |-> Collapsed, isNext |-> FALSE, isPrevious |-> FALSE,
   currentRaf |-> Undefined, frames |-> <<>>, waits |-> <<>>,
   maxHeight |-> FALSE, contentEl |-> FALSE,
   accordionGroupEl |-> Undefined, connected |-> FALSE, listening |-> FALSE]

NoRequest == [value |-> Undefined, expand |-> FALSE, pending |-> FALSE]

Init ==
  /\ dom \in Layouts
  /\ groupValue \in Selections(dom)
  /\ acc = [i \in Items |-> NewAccordion]
  /\ request = NoRequest
  /\ events = 0

\* --------------------------------------------------------------- actions
\* requestAccordionToggle is called from the click handler: nothing else
\* runs until the group has decided
Idle == ~request.pending

\* connectedCallback that subscribes whether or not a group was found
Connected_always(a, doc, i) ==
  LET g == IF dom.group THEN "group" ELSE "null"
      b == [a EXCEPT !.accordionGroupEl = g, !.connected = TRUE]
  IN [updateState(b, doc, i, groupValue, TRUE) EXCEPT !.listening = TRUE]

\* connectedCallback of item i, run with the elements `doc` in the document
Connected(a, doc, i) ==
  LET g == IF dom.group THEN "group" ELSE "null"
      b == [a EXCEPT !.accordionGroupEl = g, !.connected = TRUE]
  IN IF g = "group"
     THEN [updateState(b, doc, i, groupValue, TRUE) EXCEPT !.listening = TRUE]
     ELSE b

\* the sibling list is inserted into the document: connectedCallback runs for
\* every accordion of it, in one task
Mount ==
  /\ Idle
  /\ \A i \in Items : acc[i].accordionGroupEl = Undefined
  /\ acc' = [i \in Items |-> IF dom.tagName[i] = ACCORDION
                             THEN Connected(acc[i], Items, i) ELSE acc[i]]
  /\ UNCHANGED <<dom, groupValue, request, events>>

\* a removed accordion is inserted again at its place
connectedCallback(i) ==
  /\ Idle
  /\ dom.tagName[i] = ACCORDION
  /\ acc[i].accordionGroupEl # Undefined
  /\ ~acc[i].connected
  /\ acc' = [acc EXCEPT ![i] = Connected(acc[i], Document \cup {i}, i)]
  /\ UNCHANGED <<dom, groupValue, request, events>>

\* disconnectedCallback that leaves the listener on the group
disconnectedCallback_keepListener(i) ==
  /\ Idle
  /\ acc[i].connected
  /\ events < MaxEvents
  /\ acc' = [acc EXCEPT ![i] = [@ EXCEPT !.connected = FALSE]]
  /\ events' = events + 1
  /\ UNCHANGED <<dom, groupValue, request>>

\* the element is removed from the document
disconnectedCallback(i) ==
  /\ Idle
  /\ acc[i].connected
  /\ events < MaxEvents
  /\ acc' = [acc EXCEPT ![i] =
               [@ EXCEPT !.connected = FALSE,
                         !.listening = IF acc[i].accordionGroupEl = "group" THEN FALSE ELSE @]]
  /\ events' = events + 1
  /\ UNCHANGED <<dom, groupValue, request>>

\* first render: the refs contentEl and contentElWrapper are set
render(i) ==
  /\ Idle
  /\ acc[i].connected
  /\ ~acc[i].contentEl
  /\ acc' = [acc EXCEPT ![i].contentEl = TRUE]
  /\ UNCHANGED <<dom, groupValue, request, events>>

\* a click on the rendered header
toggleExpanded(i) ==
  /\ Idle
  /\ acc[i].connected
  /\ acc[i].contentEl
  /\ request' = IF acc[i].accordionGroupEl = "group"
                THEN [value |-> dom.value[i], expand |-> ToggleExpand(acc[i]),
                      pending |-> TRUE]
                ELSE request
  /\ UNCHANGED <<dom, groupValue, acc, events>>

\* the group honours the request: it changes its value and dispatches ionChange
GroupHonour ==
  /\ request.pending
  /\ events < MaxEvents
  /\ LET value == HonouredValue(groupValue, request.value, request.expand)
     IN /\ groupValue' = value
        /\ acc' = Broadcast(value)
  /\ request' = NoRequest
  /\ events' = events + 1
  /\ UNCHANGED dom

\* the group declines the request
GroupIgnore ==
  /\ request.pending
  /\ request' = NoRequest
  /\ UNCHANGED <<dom, groupValue, acc, events>>

\* the application assigns the group's value (possibly an equal one) and the
\* group dispatches ionChange
ionChange(value) ==
  /\ Idle
  /\ dom.group
  /\ events < MaxEvents
  /\ groupValue' = value
  /\ acc' = Broadcast(value)
  /\ events' = events + 1
  /\ UNCHANGED <<dom, request>>

\* the body of the frame callback up to its await
FrameCallback(a, cb) ==
  IF cb = "expand"
  THEN [a EXCEPT !.waits = Append(@, "expand"), !.maxHeight = TRUE]
  ELSE [a EXCEPT !.maxHeight = TRUE, !.waits = Append(@, "collapse"),
                 !.state = Collapsing]

\* a continuation that lifts the height constraint and forgets the state
Continuation_noState(a, cb) == [a EXCEPT !.maxHeight = FALSE]

\* the continuation after `await waitForTransition`
Continuation(a, cb) ==
  [a EXCEPT !.state = IF cb = "expand" THEN Expanded ELSE Collapsed,
            !.maxHeight = FALSE]

RECURSIVE RunFrames(_)
RunFrames(a) ==
  IF a.frames = <<>> THEN a
  ELSE RunFrames(FrameCallback([a EXCEPT !.frames = Tail(@)], Head(a.frames).cb))

\* an animation frame: the scheduler runs every scheduled callback, each
\* item's in the order they were scheduled
AnimationFrame ==
  /\ Idle
  /\ \E i \in Items : acc[i].frames # <<>>
  /\ acc' = [i \in Items |-> RunFrames(acc[i])]
  /\ UNCHANGED <<dom, groupValue, request, events>>

RECURSIVE ResolveAll(_)
ResolveAll(a) ==
  IF a.waits = <<>> THEN a
  ELSE ResolveAll(Continuation([a EXCEPT !.waits = Tail(@)], Head(a.waits)))

\* transitionend on the content element: every outstanding wait of the item
\* resolves, the oldest first
transitionEnd(i) ==
  /\ Idle
  /\ acc[i].waits # <<>>
  /\ acc' = [acc EXCEPT ![i] = ResolveAll(acc[i])]
  /\ UNCHANGED <<dom, groupValue, request, events>>

\* the timeout of the oldest outstanding wait fires
timeout(i) ==
  /\ Idle
  /\ acc[i].waits # <<>>
  /\ acc' = [acc EXCEPT ![i] =
               Continuation([acc[i] EXCEPT !.waits = Tail(@)], Head(acc[i].waits))]
  /\ UNCHANGED <<dom, groupValue, request, events>>

Next ==
  \/ Mount
  \/ \E i \in Items : connectedCallback(i)
  \/ \E i \in Items : disconnectedCallback(i)
  \/ \E i \in Items : render(i)
  \/ \E i \in Items : toggleExpanded(i)
  \/ GroupHonour
  \/ GroupIgnore
  \/ \E value \in Selections(dom) : ionChange(value)
  \/ AnimationFrame
  \/ \E i \in Items : transitionEnd(i)
  \/ \E i \in Items : timeout(i)

Spec == Init /\ [][Next]_vars

\* the sibling lists with at most two accordions that carry an identifier
\* (items share nothing but the group's value, so an item's progress does not
\* depend on how many siblings take part)
PairLayouts ==
  {d \in Layouts : \E i \in Items : d.tagName[i] # ACCORDION \/ d.value[i] = Undefined}

PairInit == Init /\ dom \in PairLayouts

\* the event loop: the group's method returns, and however many clicks
\* arrive, scheduled frames run and the timeout of a completion wait fires;
\* no transitionend is assumed
FairSpec ==
  /\ PairInit
  /\ [][Next]_vars
  /\ WF_vars(GroupHonour \/ GroupIgnore)
  /\ SF_vars(AnimationFrame)
  /\ \A i \in Items : SF_vars(timeout(i))

TypeOK ==
  /\ dom \in Layouts
  /\ groupValue \in Selections(dom)
  /\ \A i \in Items : acc[i].state \in AccordionState
  /\ events \in 0..MaxEvents

\* ------------------------------------------------------------ properties
Terminal == {Collapsed, Expanded}
Transient == {Collapsing, Expanding}

\* an accordion with an identifier, attached to its group and rendered
Live(i) ==
  /\ dom.tagName[i] = ACCORDION
  /\ dom.value[i] # Undefined
  /\ acc[i].listening
  /\ acc[i].contentEl

Selected(value, i) == Includes(value, dom.value[i])

\* no frame scheduled and no completion wait outstanding
Settled(i) == acc[i].frames = <<>> /\ acc[i].waits = <<>>

\* the step is an ionChange broadcast (no accordion is removed or inserted)
BroadcastStep ==
  /\ events' = events + 1
  /\ \A i \in Items : acc'[i].connected = acc[i].connected

\* a frame or a completion wait of a collapse (an expand) is outstanding
CollapseInFlight(i) ==
  \/ \E k \in DOMAIN acc[i].frames : acc[i].frames[k].cb = "collapse"
  \/ \E k \in DOMAIN acc[i].waits : acc[i].waits[k] = "collapse"

ExpandInFlight(i) ==
  \/ \E k \in DOMAIN acc[i].frames : acc[i].frames[k].cb = "expand"
  \/ \E k \in DOMAIN acc[i].waits : acc[i].waits[k] = "expand"

\* C1: when the last outstanding frame or completion wait of a rendered item
\* attached to its group has run, so that nothing is pending for it any more,
\* the item is Expanded if its identifier is in the group's value and
\* Collapsed otherwise.
C1_SettledStateFollowsSelection ==
  [][\A i \in Items :
       (Live(i) /\ ~Settled(i) /\ acc'[i].frames = <<>> /\ acc'[i].waits = <<>>)
         => acc'[i].state = IF Selected(groupValue', i) THEN Expanded ELSE Collapsed
    ]_vars

\* C2: an expand requested while a collapse of the item is in flight cancels
\* exactly one scheduled frame and schedules the expand, and while the item
\* stays selected the interrupted collapse writes neither Collapsing nor
\* Collapsed.
C2_ExpandInterruptsCollapse ==
  [][\A i \in Items :
       /\ (BroadcastStep /\ Live(i) /\ CollapseInFlight(i) /\ Selected(groupValue', i))
            => /\ Len(acc[i].frames) = 1
               /\ acc'[i].frames = <<[cb |-> "expand", current |-> TRUE]>>
       /\ (Live(i) /\ Selected(groupValue, i) /\ groupValue' = groupValue
             /\ events' = events /\ acc'[i].state # acc[i].state)
            => acc'[i].state \notin {Collapsing, Collapsed}
    ]_vars

\* C3: a request that contradicts an in-flight transition is not swallowed by
\* the no-op guard: the frame scheduled after it is the frame of the opposite
\* transition, and only that one.
C3_ContradictingRequestRestarts ==
  [][\A i \in Items :
       (BroadcastStep /\ Live(i)) =>
         /\ (CollapseInFlight(i) /\ Selected(groupValue', i))
              => /\ acc'[i].frames = <<[cb |-> "expand", current |-> TRUE]>>
                 /\ acc'[i].state = Expanding
         /\ (ExpandInFlight(i) /\ ~Selected(groupValue', i))
              => acc'[i].frames = <<[cb |-> "collapse", current |-> TRUE]>>
    ]_vars

\* C4: a toggle changes no item and schedules nothing: it forwards the item's
\* identifier with expand = (state is Collapsed or Collapsing); the items
\* change only when the group honours the request by changing its value and
\* broadcasting, and not at all when the group declines it.
C4_ToggleDefersToGroup ==
  [][/\ (~request.pending /\ request'.pending)
          => /\ acc' = acc
             /\ groupValue' = groupValue
             /\ \E i \in Items :
                  /\ acc[i].accordionGroupEl = "group"
                  /\ request'.value = dom.value[i]
                  /\ request'.expand = (acc[i].state \in {Collapsed, Collapsing})
     /\ (request.pending /\ groupValue' = groupValue /\ events' = events) => acc' = acc
     /\ (request.pending /\ acc' # acc) => (events' = events + 1 /\ ~request'.pending)
    ]_vars

\* a toggle of a Collapsing item is waiting for the group's decision
C4_Witness ==
  /\ request.pending
  /\ request.expand
  /\ \E i \in Items : request.value = dom.value[i] /\ acc[i].state = Collapsing

\* C5: the first attachment of an item with an identifier to its group puts it
\* in the terminal state matching the group's value in that step, with no
\* frame scheduled and no completion wait started.
C5_InitialMountIsImmediate ==
  [][\A i \in Items :
       (acc[i].accordionGroupEl = Undefined /\ acc'[i].accordionGroupEl = "group"
          /\ dom.value[i] # Undefined)
         => /\ acc'[i].state = IF Selected(groupValue, i) THEN Expanded ELSE Collapsed
            /\ acc'[i].frames = <<>>
            /\ acc'[i].waits = <<>>
            /\ acc'[i].currentRaf = Undefined
    ]_vars

\* just mounted: a selected item is Expanded before its first render
C5_Witness ==
  \E i \in Items :
    /\ acc[i].listening
    /\ ~acc[i].contentEl
    /\ events = 0
    /\ Selected(groupValue, i)
    /\ acc[i].state = Expanded
    /\ Settled(i)

\* items A, B, C of the sibling list: three rendered accordions with
\* identifiers, all attached to the group, and only B's identifier in `value`
OnlyMiddleSelected(value) ==
  /\ \A i \in Items : Live(i)
  /\ Selected(value, 2)
  /\ ~Selected(value, 1)
  /\ ~Selected(value, 3)

\* the flags of A, B, C as the claim states them (1) and as amended (2)
FlagsAsClaimed(f) ==
  /\ f[1].isNext /\ ~f[1].isPrevious
  /\ f[3].isPrevious /\ ~f[3].isNext
  /\ ~f[2].isNext /\ ~f[2].isPrevious

FlagsAsAmended(f) ==
  /\ f[1].isPrevious /\ ~f[1].isNext
  /\ f[3].isNext /\ ~f[3].isPrevious
  /\ ~f[2].isNext /\ ~f[2].isPrevious

\* running frames and resolving completion waits leaves the flags alone
FlagsKeptWhileSettling ==
  (groupValue' = groupValue /\ events' = events
     /\ \A i \in Items : acc'[i].connected = acc[i].connected)
    => \A i \in Items : /\ acc'[i].isNext = acc[i].isNext
                        /\ acc'[i].isPrevious = acc[i].isPrevious

\* C6 as stated: after a change to "only B selected" is delivered to A, B, C,
\* and while it settles, A.isNext and C.isPrevious are true and the other
\* flags false.
C6_AdjacencyAsClaimed ==
  [][/\ (BroadcastStep /\ OnlyMiddleSelected(groupValue')) => FlagsAsClaimed(acc')
     /\ FlagsKeptWhileSettling
    ]_vars

\* C6 amended: after a change to "only B selected" is delivered to A, B, C,
\* and while it settles, A.isPrevious and C.isNext are true and the other
\* flags false.
C6_AdjacencyOfNeighbours ==
  [][/\ (BroadcastStep /\ OnlyMiddleSelected(groupValue')) => FlagsAsAmended(acc')
     /\ FlagsKeptWhileSettling
    ]_vars

\* the change to "only B selected" has settled: B is Expanded, A is flagged
\* isPrevious and C is flagged isNext
C6_Witness ==
  /\ events > 0
  /\ OnlyMiddleSelected(groupValue)
  /\ \A i \in Items : acc[i].contentEl /\ Settled(i)
  /\ acc[2].state = Expanded
  /\ acc[2].currentRaf # Undefined
  /\ acc[1].isPrevious
  /\ acc[3].isNext

\* the fresh-mount scenario: value "panel-2", items panel-1, panel-2, panel-3
\* attached and nothing else has happened
FreshMount ==
  /\ dom.value = <<"panel-1", "panel-2", "panel-3">>
  /\ ~groupValue.isArray
  /\ groupValue.scalar = "panel-2"
  /\ \A i \in Items : acc[i].listening
  /\ events = 0

ImmediateStates ==
  /\ acc[1].state = Collapsed
  /\ acc[2].state = Expanded
  /\ acc[3].state = Collapsed
  /\ \A i \in Items : Settled(i) /\ acc[i].currentRaf = Undefined

\* C7 as stated: freshly mounted with value "panel-2", the items are
\* Collapsed, Expanded, Collapsed with nothing scheduled, and
\* panel-1.isPrevious and panel-3.isNext are false.
C7_FreshMountAsClaimed ==
  FreshMount => (ImmediateStates /\ ~acc[1].isPrevious /\ ~acc[3].isNext)

\* C7 amended: freshly mounted with value "panel-2", the items are
\* Collapsed, Expanded, Collapsed with nothing scheduled; panel-1.isPrevious
\* and panel-3.isNext are true, panel-1.isNext and panel-3.isPrevious false,
\* and panel-2 has neither flag.
C7_FreshMount ==
  FreshMount =>
    /\ ImmediateStates
    /\ acc[1].isPrevious /\ ~acc[1].isNext
    /\ acc[3].isNext /\ ~acc[3].isPrevious
    /\ ~acc[2].isNext /\ ~acc[2].isPrevious

\* the three panels are mounted, panel-2 open, not yet rendered
C7_Witness ==
  /\ FreshMount
  /\ acc[2].state = Expanded
  /\ \A i \in Items : ~acc[i].contentEl

\* C8: a rendered item that is Expanded or Expanding has isNext and
\* isPrevious false.
C8_OpenItemHasNoFlags ==
  \A i \in Items :
    (Live(i) /\ acc[i].state \in {Expanded, Expanding})
      => (~acc[i].isNext /\ ~acc[i].isPrevious)

\* C9: a second notification with the group's value unchanged starts nothing
\* for an item that is in flight or rests in the state matching the value: no
\* frame is added, no wait is started, no state is written.
C9_RepeatedNotificationIsIdle ==
  [][\A i \in Items :
       (BroadcastStep /\ groupValue' = groupValue /\ Live(i)
          /\ (~Settled(i)
                \/ acc[i].state = IF Selected(groupValue, i) THEN Expanded ELSE Collapsed))
         => /\ acc'[i].frames = acc[i].frames
            /\ acc'[i].waits = acc[i].waits
            /\ acc'[i].state = acc[i].state
    ]_vars

\* C10: with frames run and timeouts fired, an item in Expanding or Collapsing
\* eventually is Expanded or Collapsed, also when no transitionend arrives.
C10_TransientEventuallyTerminal ==
  \A i \in Items :
    (acc[i].state \in Transient) ~> (acc[i].state \in Terminal)

\* the collapse frame has run: the item is Collapsing and waits for completion
C10_Witness ==
  \E i \in Items :
    /\ acc[i].state = Collapsing
    /\ acc[i].frames = <<>>
    /\ acc[i].waits = <<"collapse">>

\* C11: an item that found no enclosing group when it was attached stays
\* inert: it is never subscribed, it stays Collapsed with isNext and
\* isPrevious false, nothing is ever scheduled or awaited for it, and no
\* toggle request of it is ever with a group.
C11_NoGroupIsInert ==
  \A i \in Items :
    acc[i].accordionGroupEl = "null"
      => /\ ~acc[i].listening
         /\ acc[i].state = Collapsed
         /\ ~acc[i].isNext /\ ~acc[i].isPrevious
         /\ acc[i].currentRaf = Undefined
         /\ Settled(i)
         /\ ~request.pending

\* an item without a group, attached and rendered, after an accordion of its
\* sibling list was removed
C11_Witness ==
  \E i \in Items :
    /\ acc[i].accordionGroupEl = "null"
    /\ acc[i].connected
    /\ acc[i].contentEl
    /\ events > 0

\* C12: an item whose identifier is undefined is never changed by a
\* notification of its group, the initial one or a later one: it stays
\* Collapsed with isNext and isPrevious false, and nothing is ever scheduled
\* or awaited for it.
C12_NoIdentifierIsUntouched ==
  \A i \in Items :
    (dom.tagName[i] = ACCORDION /\ dom.value[i] = Undefined)
      => /\ acc[i].state = Collapsed
         /\ ~acc[i].isNext /\ ~acc[i].isPrevious
         /\ acc[i].currentRaf = Undefined
         /\ Settled(i)

\* a subscribed, rendered item without identifier after a broadcast that
\* opened a sibling of it
C12_Witness ==
  \E i \in Items :
    /\ dom.tagName[i] = ACCORDION /\ dom.value[i] = Undefined
    /\ acc[i].listening /\ acc[i].contentEl
    /\ events > 0
    /\ \E j \in Items \ {i} : Live(j) /\ Selected(groupValue, j) /\ ~Settled(j)

\* C13: when the group's value changes while a subscribed item with an
\* identifier has not rendered its content yet, the expand or collapse asked
\* of it returns at once: its state, its scheduled frames, the handle in
\* currentRaf and its completion waits are what they were.
C13_UnrenderedRequestIsNoOp ==
  [][\A i \in Items :
       (BroadcastStep /\ acc[i].listening /\ dom.value[i] # Undefined /\ ~acc[i].contentEl)
         => /\ acc'[i].state = acc[i].state
            /\ acc'[i].frames = acc[i].frames
            /\ acc'[i].currentRaf = acc[i].currentRaf
            /\ acc'[i].waits = acc[i].waits
    ]_vars

\* after a broadcast an unrendered item is at rest in the state the new value
\* contradicts
C13_Witness ==
  \E i \in Items :
    /\ acc[i].listening /\ dom.value[i] # Undefined /\ ~acc[i].contentEl
    /\ events > 0
    /\ acc[i].state = IF Selected(groupValue, i) THEN Collapsed ELSE Expanded

\* the callback of the frame scheduled last for item i, after the step
LastScheduled(i) == acc'[i].frames[Len(acc'[i].frames)].cb

\* C14: a change of the group's value is delivered to every subscribed item
\* before the frame callback of any transition it starts runs: when the
\* broadcast step is over, no frame callback has run (no completion wait was
\* added, no height constraint set), every rendered item whose resting state
\* contradicts the new value has its frame scheduled, and every frame
\* scheduled in the step is the one the new value asks for.
C14_DeliveredBeforeAnyFrameRuns ==
  [][BroadcastStep =>
       \A i \in Items :
         /\ acc'[i].waits = acc[i].waits
         /\ acc'[i].maxHeight = acc[i].maxHeight
         /\ (Live(i) /\ acc[i].state = Collapsed /\ Selected(groupValue', i))
              => acc'[i].frames # <<>> /\ LastScheduled(i) = "expand"
         /\ (Live(i) /\ acc[i].state = Expanded /\ ~Selected(groupValue', i))
              => acc'[i].frames # <<>> /\ LastScheduled(i) = "collapse"
         /\ (Live(i) /\ acc'[i].frames # acc[i].frames)
              => /\ acc'[i].frames # <<>>
                 /\ LastScheduled(i) = IF Selected(groupValue', i) THEN "expand"
                                       ELSE "collapse"
    ]_vars

\* one broadcast has started the expand of one item and the collapse of
\* another, and neither frame has run
C14_Witness ==
  \E i, j \in Items :
    /\ Live(i) /\ Live(j)
    /\ Selected(groupValue, i) /\ ~Selected(groupValue, j)
    /\ acc[i].state = Expanding /\ acc[j].state = Expanded
    /\ Len(acc[i].frames) = 1 /\ Len(acc[j].frames) = 1
    /\ acc[i].waits = <<>> /\ acc[j].waits = <<>>
    /\ events = 1

\* item i is subscribed exactly when it is attached and has found its group
SubscribedWhileAttached(i) ==
  acc[i].listening <=> (acc[i].connected /\ acc[i].accordionGroupEl = "group")

\* C15: an item is subscribed to its group's notifications exactly while it
\* is attached with a group found, through every sequence of removals and
\* insertions, and a broadcast leaves an item that is not attached as it was.
C15_SubscribedExactlyWhileAttached ==
  [][\A i \in Items :
       /\ SubscribedWhileAttached(i)
       /\ SubscribedWhileAttached(i)'
       /\ (BroadcastStep /\ ~acc[i].connected) => acc'[i] = acc[i]
    ]_vars

\* a rendered item was removed while at rest and never moved; the group's
\* value then asks for the other resting state while a sibling of it, still
\* attached, has followed the value
C15_Witness ==
  \E i \in Items :
    /\ ~acc[i].connected /\ ~acc[i].listening
    /\ acc[i].accordionGroupEl = "group"
    /\ dom.value[i] # Undefined
    /\ acc[i].contentEl
    /\ acc[i].currentRaf = Undefined
    /\ acc[i].state = Collapsed /\ Selected(groupValue, i)
    /\ \E j \in Items \ {i} : Live(j) /\ ~Settled(j)

\* a transition of item i that a later one has superseded still has its frame
\* or its completion wait outstanding
SupersededOutstanding(i) == Len(acc[i].frames) + Len(acc[i].waits) > 1

\* C16: a superseded transition is cancelled: at most one transition of an
\* item has its frame or its completion wait outstanding, and so no
\* continuation of an earlier transition resolves, and writes the state,
\* after a newer transition was started.
C16_SupersededIsCancelled ==
  [][\A i \in Items :
       /\ ~SupersededOutstanding(i)'
       /\ (SupersededOutstanding(i) /\ Len(acc'[i].waits) < Len(acc[i].waits))
            => acc'[i].state = acc[i].state
    ]_vars

\* C17: an item has at most one frame that is scheduled and has not run:
\* whatever schedules a frame has cancelled the one scheduled before.
C17_AtMostOneScheduledFrame ==
  \A i \in Items : Len(acc[i].frames) <= 1

\* the frame of an expand was cancelled and replaced by the frame of a
\* collapse: the item is still Expanding and its one frame is the collapse's
C17_Witness ==
  \E i \in Items :
    /\ acc[i].state = Expanding
    /\ acc[i].waits = <<>>
    /\ Len(acc[i].frames) = 1
    /\ acc[i].frames[1].cb = "collapse"

\* the changes of lifecycleState the transitions are meant to make
LifecycleEdges ==
  {<<Collapsed, Expanding>>, <<Expanding, Expanded>>,
   <<Expanded, Collapsing>>, <<Collapsing, Collapsed>>,
   <<Expanding, Collapsing>>, <<Collapsing, Expanding>>}

\* C18: in a step that is not an attachment of the item (the initial-mount
\* path), its lifecycleState stays or changes along Collapsed -> Expanding ->
\* Expanded -> Collapsing -> Collapsed or a reversal between Expanding and
\* Collapsing; it never becomes Expanded from Collapsing or Collapsed, nor
\* Collapsed from Expanding or Expanded.
C18_LifecycleEdgesOnly ==
  [][\A i \in Items :
       (acc[i].connected = acc'[i].connected /\ acc[i].state # acc'[i].state)
         => <<acc[i].state, acc'[i].state>> \in LifecycleEdges
    ]_vars

\* j is the element right after (right before) i among the elements `doc`,
\* and it is an accordion with an identifier
AccordionRightAfter(doc, i, j) ==
  /\ j \in doc /\ j > i
  /\ \A k \in doc : ~(i < k /\ k < j)
  /\ dom.tagName[j] = ACCORDION /\ dom.value[j] # Undefined

AccordionRightBefore(doc, i, j) ==
  /\ j \in doc /\ j < i
  /\ \A k \in doc : ~(j < k /\ k < i)
  /\ dom.tagName[j] = ACCORDION /\ dom.value[j] # Undefined

\* item i runs updateState in the step: it is subscribed and the group
\* broadcasts, or it is attached to its group
Notified(i) ==
  \/ BroadcastStep /\ acc[i].listening
  \/ ~acc[i].connected /\ acc'[i].connected /\ acc'[i].listening

\* C19: when a notification finds an item with an identifier not selected,
\* isPrevious becomes whether the identifier of the element right after it is
\* selected, and isNext whether the identifier of the element right before it
\* is, provided that element is an accordion with an identifier; otherwise
\* the flag keeps the value it had.
C19_FlagsFromImmediateNeighbours ==
  [][\A i \in Items :
       (Notified(i) /\ dom.value[i] # Undefined /\ ~Selected(groupValue', i))
         => /\ acc'[i].isPrevious =
                 IF \E j \in Items : AccordionRightAfter(Document', i, j)
                 THEN \E j \in Items : /\ AccordionRightAfter(Document', i, j)
                                       /\ Selected(groupValue', j)
                 ELSE acc[i].isPrevious
            /\ acc'[i].isNext =
                 IF \E j \in Items : AccordionRightBefore(Document', i, j)
                 THEN \E j \in Items : /\ AccordionRightBefore(Document', i, j)
                                       /\ Selected(groupValue', j)
                 ELSE acc[i].isNext
    ]_vars

\* the open accordion right after an item was removed and the group then
\* broadcast a value without it: the item, with no accordion right after it
\* any more, still has the isPrevious it had
C19_Witness ==
  \E i \in Items :
    /\ acc[i].listening /\ dom.value[i] # Undefined
    /\ ~Selected(groupValue, i)
    /\ acc[i].isPrevious
    /\ ~ \E j \in Items : AccordionRightAfter(Document, i, j)
    /\ i + 1 \in Items
    /\ dom.tagName[i + 1] = ACCORDION /\ dom.value[i + 1] # Undefined
    /\ ~acc[i + 1].connected
    /\ ~Selected(groupValue, i + 1)
    /\ events = 2

====
